---- MODULE Spec2Model ----
(***************************************************************************)
(* A model of keras_hub.layers.RandomSwap                                  *)
(* (src/keras_hub/src/layers/preprocessing/random_swap.py) and of the      *)
(* other programs of the repository, each with a specification of its own. *)
(*                                                                         *)
(* RandomSwap: the state is a set of layer objects, the frame of the constructor or    *)
(* call that is running, and the values the stateless random operations    *)
(* have returned so far.  Python runs one handler at a time, so at most    *)
(* one frame is active.                                                    *)
(*                                                                         *)
(* Optional values: None is the empty tuple, a supplied value v is <<v>>.  *)
(* Positions are 0-based as in the source; a tensor t is a TLA+ sequence,  *)
(* so position p of t is t[p + 1].                                         *)
(***************************************************************************)
EXTENDS Integers, Sequences, FiniteSets, TLC

VARIABLES
    slots,    \* the layer objects the host program creates
    layer,    \* layer[l]: the attributes of layer object l
    ctor,     \* frame of the running / last finished RandomSwap.__init__
    call,     \* frame of the running / last finished RandomSwap.call
    memo,     \* values returned by the stateless random ops, by seed and arguments
    calls,    \* number of inputs the host program has taken up
    given,    \* given[l]: what layer l was called with for the current input
    result,   \* result[l]: what layer l returned for the current input
    twin,     \* all layers were called with identical values for all earlier inputs
    lm,       \* the MixtralCausalLMPreprocessor object and its last method call
    net,      \* the CSPDarkNet graph under construction, or the last block applied
    conv,     \* frame of convert_checkpoints and the weights assigned so far
    run       \* frame of main of the conversion script and the file system

swapVars == <<slots, layer, ctor, call, memo, calls, given, result, twin>>
others == <<lm, net, conv, run>>
vars == <<slots, layer, ctor, call, memo, calls, given, result, twin, lm, net, conv, run>>

----------------------------------------------------------------------------
(* Bounds *)

MaxFlat == 3     \* most tokens in one input (size of inputs.flat_values)
MaxBatch == 2    \* most rows of a batched input
MaxSwaps == 1    \* largest max_swaps argument
MaxCalls == 2    \* inputs the two-layer program feeds to its layers
MaxWords == 4    \* most words of a text given to the preprocessor
MaxLevels == 2   \* most dark levels of a backbone
MaxDepth == 2    \* most bottlenecks of a cross stage partial block
MaxSide == 4     \* largest width and height of an image given to apply_focus
MaxLayers == 2   \* most transformer layers on each side of a BART model
MaxRows == 4     \* most rows of a position embedding table of the source model

----------------------------------------------------------------------------
(* Values *)

None == <<>>
Some(v) == <<v>>

Min(a, b) == IF a <= b THEN a ELSE b

\* the tokens of an input are told apart by where they stand in it: the k-th token
\* of inputs.flat_values is k
Tokens == 1..MaxFlat
Layers == {1, 2}

\* a seed only names a stream of random values: two tell equal from different
Seeds == {1, 2}

\* rate is a probability; the model keeps it in percent
Rates == {0, 50, 100}

Dtypes == {"int32", "string", "float32"}
InputDtypes == {"int32", "string"}

\* keras_hub.src.utils.tensor_utils.is_int_dtype / is_string_dtype
is_int_dtype(dtype) == dtype \in {"int32"}
is_string_dtype(dtype) == dtype = "string"

RECURSIVE FlatLen(_)
FlatLen(rows) == IF rows = <<>> THEN 0 ELSE Len(Head(rows)) + FlatLen(Tail(rows))

FlatValues(k) == [i \in 1..k |-> i]

RECURSIVE Sum(_)
Sum(lens) == IF lens = <<>> THEN 0 ELSE Head(lens) + Sum(Tail(lens))

\* the rows of the ragged tensor with the given flat values and row lengths
FromRowLengths(values, lens) ==
    [r \in 1..Len(lens) |->
        LET start == Sum(SubSeq(lens, 1, r - 1))
        IN  SubSeq(values, start + 1, start + lens[r])]

RowLengthsOf(k, n) == {lens \in [1..n -> 0..k] : Sum(lens) = k}

Rows == {FlatValues(k) : k \in 0..MaxFlat}

Batches ==
    UNION {UNION {{FromRowLengths(FlatValues(k), lens) : lens \in RowLengthsOf(k, n)} :
                      n \in 1..MaxBatch} :
               k \in 0..MaxFlat}

\* what a caller may pass to call: one sequence (rank 1) or a batch (rank 2)
Inputs ==
    {[rank |-> 1, dtype |-> d, data |-> r] : d \in InputDtypes, r \in Rows}
    \cup {[rank |-> 2, dtype |-> d, data |-> b] : d \in InputDtypes, b \in Batches}

RECURSIVE Ascending(_)
Ascending(S) ==
    IF S = {} THEN <<>>
    ELSE LET m == CHOOSE x \in S : \A y \in S : x <= y
         IN  <<m>> \o Ascending(S \ {m})

\* a predicate on tokens is the set of values it returns True for
PyValue(kind, t) == <<kind, t>>
SkipLists == {None} \cup {Some(Ascending(S)) : S \in SUBSET Tokens}
SkipFns == {None, Some({2})}
SkipPyFns == {None, Some({PyValue("int", 1), PyValue("str", 1)})}

Args ==
    [rate : Rates,
     max_swaps : {None} \cup {Some(n) : n \in (0 - 1)..MaxSwaps},
     skip_list : SkipLists,
     skip_fn : SkipFns,
     skip_py_fn : SkipPyFns,
     seed : {None} \cup {Some(s) : s \in Seeds},
     dtype : Dtypes]

----------------------------------------------------------------------------
(* RandomSwap.__init__ *)

\* a layer object that does not exist (yet); gen is the state of self._generator
NoLayer ==
    [state |-> "none", base |-> FALSE, rate |-> 0 - 1, max_swaps |-> None,
     seed |-> 0, skip_list |-> None, skip_fn |-> None, skip_py_fn |-> None,
     table |-> None, gen |-> None]

\* at: the statement that raised exc
NoCtor == [pc |-> "idle", l |-> 0, args |-> None, exc |-> None, at |-> None]

\* the base class is initialised before the dtype is looked at
CtorOrderSuperFirst ==
    <<"super_init", "dtype_check", "assign", "check_max_swaps", "check_skip",
      "hash_table">>

\* the statements of __init__, in source order
CtorOrder ==
    <<"dtype_check", "super_init", "assign", "check_max_swaps", "check_skip",
      "hash_table">>

CtorIndex(pc) == CHOOSE i \in 1..Len(CtorOrder) : CtorOrder[i] = pc

\* where control goes when statement pc falls through
CtorAfter(pc) ==
    IF CtorIndex(pc) = Len(CtorOrder) THEN "done" ELSE CtorOrder[CtorIndex(pc) + 1]

\* line 120: the condition under which the dtype is refused
DtypeRefused(dtype) == ~is_int_dtype(dtype) /\ ~is_string_dtype(dtype)

\* line 130: random.randint(1, int(1e9)) if seed is None else seed
SeedChoices(seed) == IF seed = None THEN Seeds ELSE {seed[1]}

\* zero refused as well
MaxSwapsRefusedZero(max_swaps) == max_swaps # None /\ max_swaps[1] <= 0

\* line 135
MaxSwapsRefused(max_swaps) == max_swaps # None /\ max_swaps[1] < 0

\* [skip_list, skip_fn, skip_py_fn].count(None)
CountNone(a) ==
    (IF a.skip_list = None THEN 1 ELSE 0) + (IF a.skip_fn = None THEN 1 ELSE 0)
    + (IF a.skip_py_fn = None THEN 1 ELSE 0)

\* only all three together refused
SkipRefusedAllThree(a) == CountNone(a) < 1

\* exactly one demanded, as the message of the error says
SkipRefusedUnlessOne(a) == CountNone(a) # 2

\* line 141
SkipRefused(a) == CountNone(a) < 2

\* Python truth value of self.skip_list (line 147, line 161)
SkipListTruthy(skip_list) == skip_list # None /\ Len(skip_list[1]) > 0

\* lines 148-154: keys of the list map to True, everything else to False
StaticHashTable(skip_list) == {skip_list[1][i] : i \in 1..Len(skip_list[1])}

Busy == ctor.pc \notin {"idle", "done", "raised"} \/ call.pc \notin {"idle", "done"}

\* how the statement at pc leaves the object: __init__ returns after the last one
Finish(lay, pc) == IF CtorAfter(pc) = "done" THEN [lay EXCEPT !.state = "ready"] ELSE lay

\* a ValueError leaves __init__: the caller gets no layer
Raise(l) ==
    /\ ctor' = [ctor EXCEPT !.pc = "raised", !.exc = Some("ValueError"),
                            !.at = Some(ctor.pc)]
    /\ layer' = [layer EXCEPT ![l] = [NoLayer EXCEPT !.state = "failed"]]

Pass(l, lay, pc) ==
    /\ ctor' = [ctor EXCEPT !.pc = CtorAfter(pc)]
    /\ layer' = [layer EXCEPT ![l] = Finish(lay, pc)]

\* RandomSwap(**a) is entered; every layer of the program gets the same arguments
CtorBegin(l, A) ==
    /\ ~Busy
    /\ l \in slots
    /\ layer[l].state = "none"
    /\ \E a \in A :
          /\ ctor.args # None => a = ctor.args[1]
          /\ ctor' = [pc |-> CtorOrder[1], l |-> l, args |-> Some(a), exc |-> None,
                      at |-> None]
    /\ layer' = [layer EXCEPT ![l].state = "init"]
    /\ UNCHANGED <<slots, call, memo, calls, given, result, twin>>
    /\ UNCHANGED others

\* lines 120-124
CtorDtypeCheck(l) ==
    /\ ctor.pc = "dtype_check" /\ ctor.l = l
    /\ IF DtypeRefused(ctor.args[1].dtype)
       THEN Raise(l)
       ELSE Pass(l, layer[l], "dtype_check")
    /\ UNCHANGED <<slots, call, memo, calls, given, result, twin>>
    /\ UNCHANGED others

\* line 126
CtorSuperInit(l) ==
    /\ ctor.pc = "super_init" /\ ctor.l = l
    /\ Pass(l, [layer[l] EXCEPT !.base = TRUE], "super_init")
    /\ UNCHANGED <<slots, call, memo, calls, given, result, twin>>
    /\ UNCHANGED others

\* lines 128-134
CtorAssign(l) ==
    /\ ctor.pc = "assign" /\ ctor.l = l
    /\ LET a == ctor.args[1] IN
       \E s \in SeedChoices(a.seed) :
          Pass(l, [layer[l] EXCEPT !.rate = a.rate,
                                   !.max_swaps = a.max_swaps,
                                   !.seed = s,
                                   !.gen = Some(0),
                                   !.skip_list = a.skip_list,
                                   !.skip_fn = a.skip_fn,
                                   !.skip_py_fn = a.skip_py_fn], "assign")
    /\ UNCHANGED <<slots, call, memo, calls, given, result, twin>>
    /\ UNCHANGED others

\* lines 135-139
CtorCheckMaxSwaps(l) ==
    /\ ctor.pc = "check_max_swaps" /\ ctor.l = l
    /\ IF MaxSwapsRefused(layer[l].max_swaps)
       THEN Raise(l)
       ELSE Pass(l, layer[l], "check_max_swaps")
    /\ UNCHANGED <<slots, call, memo, calls, given, result, twin>>
    /\ UNCHANGED others

\* lines 141-145
CtorCheckSkip(l) ==
    /\ ctor.pc = "check_skip" /\ ctor.l = l
    /\ IF SkipRefused(layer[l])
       THEN Raise(l)
       ELSE Pass(l, layer[l], "check_skip")
    /\ UNCHANGED <<slots, call, memo, calls, given, result, twin>>
    /\ UNCHANGED others

\* lines 147-154
CtorHashTable(l) ==
    /\ ctor.pc = "hash_table" /\ ctor.l = l
    /\ LET table == IF SkipListTruthy(layer[l].skip_list)
                    THEN Some(StaticHashTable(layer[l].skip_list))
                    ELSE None
       IN  Pass(l, [layer[l] EXCEPT !.table = table], "hash_table")
    /\ UNCHANGED <<slots, call, memo, calls, given, result, twin>>
    /\ UNCHANGED others

----------------------------------------------------------------------------
(* RandomSwap.get_config and the layer built from it *)

\* the seed is left out of the configuration
GetConfigNoSeed(lay) ==
    [rate |-> lay.rate, max_swaps |-> lay.max_swaps, seed |-> None,
     skip_list |-> lay.skip_list, skip_fn |-> lay.skip_fn,
     skip_py_fn |-> lay.skip_py_fn]

\* lines 238-250: the entries get_config adds to the configuration of the base
\* class; self.seed is an integer, which is a supplied seed for the constructor
GetConfig(lay) ==
    [rate |-> lay.rate, max_swaps |-> lay.max_swaps, seed |-> Some(lay.seed),
     skip_list |-> lay.skip_list, skip_fn |-> lay.skip_fn,
     skip_py_fn |-> lay.skip_py_fn]

\* RandomSwap(**layer_1.get_config()) is entered for layer l; dtype is among
\* the entries of the base class and is the one layer 1 was built with
FromConfig(l) ==
    /\ ~Busy
    /\ l \in slots
    /\ layer[l].state = "none"
    /\ layer[1].state = "ready"
    /\ ctor.args # None
    /\ LET config == GetConfig(layer[1])
           a == [rate |-> config.rate, max_swaps |-> config.max_swaps,
                 skip_list |-> config.skip_list, skip_fn |-> config.skip_fn,
                 skip_py_fn |-> config.skip_py_fn, seed |-> config.seed,
                 dtype |-> ctor.args[1].dtype]
       IN  ctor' = [pc |-> CtorOrder[1], l |-> l, args |-> Some(a), exc |-> None,
                    at |-> None]
    /\ layer' = [layer EXCEPT ![l].state = "init"]
    /\ UNCHANGED <<slots, call, memo, calls, given, result, twin>>
    /\ UNCHANGED others

----------------------------------------------------------------------------
(* RandomSwap.call: tensor operations *)

\* keras_hub.src.utils.tensor_utils.convert_to_ragged_batch: a rank-1 input
\* becomes a batch of one row and is reported as unbatched
convert_to_ragged_batch(x) ==
    [inputs |-> IF x.rank = 1 THEN <<x.data>> ELSE x.data,
     unbatched |-> x.rank = 1]

\* lines 169-175: the Python value skip_py_fn is applied to
string_fn(fn, token) == PyValue("str", token) \in fn
int_fn(fn, token) == PyValue("int", token) \in fn
py_fn(dtype, fn, token) ==
    IF dtype = "string" THEN string_fn(fn, token) ELSE int_fn(fn, token)

\* lines 160-181: None, or per token whether it is excluded
SkipMasks(lay, inputs, dtype) ==
    IF SkipListTruthy(lay.skip_list)
    THEN Some([r \in 1..Len(inputs) |->
                 [i \in 1..Len(inputs[r]) |-> inputs[r][i] \in lay.table[1]]])
    ELSE IF lay.skip_fn # None
    THEN Some([r \in 1..Len(inputs) |->
                 [i \in 1..Len(inputs[r]) |-> inputs[r][i] \in lay.skip_fn[1]]])
    ELSE IF lay.skip_py_fn # None
    THEN Some([r \in 1..Len(inputs) |->
                 [i \in 1..Len(inputs[r]) |->
                     py_fn(dtype, lay.skip_py_fn[1], inputs[r][i])]])
    ELSE None

\* tf.ragged.range(inputs.row_lengths())
RaggedRange(inputs) ==
    [r \in 1..Len(inputs) |-> [i \in 1..Len(inputs[r]) |-> i - 1]]

RECURSIVE MaskRow(_, _)
MaskRow(row, mask) ==
    IF row = <<>> THEN <<>>
    ELSE (IF Head(mask) THEN <<Head(row)>> ELSE <<>>) \o MaskRow(Tail(row), Tail(mask))

\* tf.ragged.boolean_mask
BooleanMask(ragged, masks) ==
    [r \in 1..Len(ragged) |-> MaskRow(ragged[r], masks[r])]

LogicalNot(masks) ==
    [r \in 1..Len(masks) |-> [i \in 1..Len(masks[r]) |-> ~masks[r][i]]]

\* lines 183-190: the positions of every row that may be swapped
Positions(lay, inputs, dtype) ==
    LET skip_masks == SkipMasks(lay, inputs, dtype)
    IN  IF skip_masks # None
        THEN BooleanMask(RaggedRange(inputs), LogicalNot(skip_masks[1]))
        ELSE RaggedRange(inputs)

RowLengths(ragged) == [r \in 1..Len(ragged) |-> Len(ragged[r])]

\* the counts taken from the full rows
TokenCountsFull(positions, inputs) == RowLengths(inputs)

\* line 192
TokenCounts(positions, inputs) == RowLengths(positions)

\* the values tf.random.stateless_binomial can return for one count
BinomialSupport(n, rate) ==
    IF rate = 0 THEN {0} ELSE IF rate = 100 THEN {n} ELSE 0..n

BinomialVectors(counts, rate) ==
    {v \in [1..Len(counts) -> 0..MaxFlat] :
        \A r \in 1..Len(counts) : v[r] \in BinomialSupport(counts[r], rate)}

\* max_swaps left out of the count
NumToSelectUncapped(lay, binom, positions) ==
    [r \in 1..Len(binom) |-> Min(binom[r], Len(positions[r]))]

\* max_swaps tested for truth, so that 0 counts as not given
NumToSelectTruthy(lay, binom, positions) ==
    [r \in 1..Len(binom) |->
        LET capped == IF lay.max_swaps # None /\ lay.max_swaps[1] # 0
                      THEN Min(binom[r], lay.max_swaps[1])
                      ELSE binom[r]
        IN  Min(capped, Len(positions[r]))]

\* lines 199-204
NumToSelect(lay, binom, positions) ==
    [r \in 1..Len(binom) |->
        LET capped == IF lay.max_swaps # None
                      THEN Min(binom[r], lay.max_swaps[1])
                      ELSE binom[r]
        IN  Min(capped, Len(positions[r]))]

\* the values tf.random.stateless_uniform(shape=[2], minval=0, maxval=n) can return
UniformPairs(n) == (0..(n - 1)) \X (0..(n - 1))

\* the sampled numbers used as positions of the row themselves
GatherRaw(positions, index) == <<index[1], index[2]>>

\* line 216
Gather(positions, index) == <<positions[index[1] + 1], positions[index[2] + 1]>>

\* both updates read the same position
SwapUpdatesSame(t, index1, index2) == <<t[index2 + 1], t[index2 + 1]>>

\* line 221: the updates of the scatter
SwapUpdates(t, index1, index2) == <<t[index2 + 1], t[index1 + 1]>>

\* the swap done by cutting the row at the two positions and gluing the pieces
TensorScatterBySlices(t, indices, updates) ==
    LET i == indices[1] + 1
        j == indices[2] + 1
    IN  {SubSeq(t, 1, i - 1) \o <<updates[1]>> \o SubSeq(t, i + 1, j - 1)
            \o <<updates[2]>> \o SubSeq(t, j + 1, Len(t))}

\* tf.tensor_scatter_nd_update: every listed position takes one of the updates
\* written to it (the order of duplicate writes is not fixed), the rest is copied
TensorScatterNdUpdate(t, indices, updates) ==
    LET written == {indices[k] + 1 : k \in 1..Len(indices)}
        writes(p) == {updates[k] : k \in {j \in 1..Len(indices) : indices[j] + 1 = p}}
        outcomes == {w \in [written -> Tokens] : \A p \in written : w[p] \in writes(p)}
    IN  {[p \in 1..Len(t) |-> IF p \in written THEN w[p] ELSE t[p]] : w \in outcomes}

\* the batch axis is never removed
SqueezeNever(swapped, unbatched, dtype) ==
    [rank |-> 2, dtype |-> dtype, data |-> swapped]

\* tf.squeeze(swapped, axis=0) when unbatched (lines 234-236)
Squeeze(swapped, unbatched, dtype) ==
    IF unbatched
    THEN [rank |-> 1, dtype |-> dtype, data |-> swapped[1]]
    ELSE [rank |-> 2, dtype |-> dtype, data |-> swapped]

----------------------------------------------------------------------------
(* The random generator *)

\* self._generator.make_seeds()[:, 0]: the seed is a function of the generator's
\* state, and the state moves on by one
MakeSeeds(lay) == [seed |-> lay.seed, ctr |-> lay.gen[1]]
\* make_seeds leaves the state of the generator where it was
AdvanceStuck(lay) == lay

Advance(lay) == [lay EXCEPT !.gen = Some(lay.gen[1] + 1)]

Key(sd, op, args) == [seed |-> sd.seed, ctr |-> sd.ctr, op |-> op, args |-> args]

\* a stateful op: the value does not depend on the seed
DrawUnseeded(key, support) == support

\* a stateless op is a function of its seed and arguments: a seed and arguments
\* seen before give the value returned before, others any value of the support
Draw(key, support) == IF key \in DOMAIN memo THEN {memo[key]} ELSE support

\* the recorded values some generator can still ask for, after layer l's
\* generator has moved to state gen
Record(key, val, l, gen) ==
    LET all == (key :> val) @@ memo
        live == {k \in DOMAIN all :
                    \E m \in slots :
                        /\ layer[m].seed = k.seed
                        /\ (IF m = l THEN gen[1] ELSE layer[m].gen[1]) <= k.ctr}
    IN  [k \in live |-> all[k]]

----------------------------------------------------------------------------
(* RandomSwap.call *)

NoCall ==
    [pc |-> "idle", l |-> 0, arg |-> None, inputs |-> <<>>, unbatched |-> FALSE,
     positions |-> <<>>, binom |-> <<>>, num_to_select |-> <<>>,
     row |-> 0, it |-> 0, cur |-> <<>>, swapped |-> <<>>, iters |-> <<>>]

\* the same data as one sequence and as a batch of one row
Variants(x) ==
    {x} \cup (IF x.rank = 1
              THEN {[x EXCEPT !.rank = 2, !.data = <<x.data>>]}
              ELSE IF Len(x.data) = 1
              THEN {[x EXCEPT !.rank = 1, !.data = x.data[1]]}
              ELSE {})

RoundOver == \A k \in slots : result[k] # None

\* The host program has called each of its layers with the current input and
\* drops the results before it takes up the next input.
NextInput ==
    /\ ~Busy
    /\ RoundOver
    /\ calls < MaxCalls
    /\ twin' = (twin /\ \A k \in slots : given[k] = given[1])
    /\ given' = [k \in Layers |-> None]
    /\ result' = [k \in Layers |-> None]
    /\ call' = NoCall
    /\ UNCHANGED <<slots, layer, ctor, memo, calls>>
    /\ UNCHANGED others

\* lines 157-204: layer(x) is entered and runs up to the start of tf.map_fn.
\* The host program calls layer 1 with a new input x, and after it every other
\* layer with the same data, as one sequence or as a batch of one row.
CallBegin(l, X) ==
    /\ ~Busy
    /\ l \in slots
    /\ \A k \in slots : layer[k].state = "ready"
    /\ given[l] = None
    /\ \E x \in X :
          /\ IF l = 1
             THEN /\ calls < MaxCalls
                  /\ calls' = calls + 1
             ELSE /\ given[1] # None
                  /\ x \in Variants(given[1][1])
                  /\ UNCHANGED calls
          /\ given' = [given EXCEPT ![l] = Some(x)]
          /\ LET lay == layer[l]
                 batch == convert_to_ragged_batch(x)
                 inputs == batch.inputs
                 positions == Positions(lay, inputs, x.dtype)
                 token_counts == TokenCounts(positions, inputs)
                 key == Key(MakeSeeds(lay), "binomial", token_counts \o <<lay.rate>>)
             IN  \E binom \in Draw(key, BinomialVectors(token_counts, lay.rate)) :
                    /\ layer' = [layer EXCEPT ![l] = Advance(lay)]
                    /\ memo' = Record(key, binom, l, Advance(lay).gen)
                    /\ call' = [pc |-> "map", l |-> l, arg |-> Some(x),
                                inputs |-> inputs, unbatched |-> batch.unbatched,
                                positions |-> positions, binom |-> binom,
                                num_to_select |-> NumToSelect(lay, binom, positions),
                                row |-> 1, it |-> 0, cur |-> inputs[1],
                                swapped |-> <<>>, iters |-> <<>>]
    /\ ctor' = NoCtor
    /\ UNCHANGED <<slots, result, twin>>
    /\ UNCHANGED others

\* lines 208-222: one iteration of the loop of _swap on the current row
SwapIter(l) ==
    /\ call.pc = "map" /\ call.l = l
    /\ call.it < call.num_to_select[call.row]
    /\ LET lay == layer[l]
           positions == call.positions[call.row]
           key == Key(MakeSeeds(lay), "uniform", <<Len(positions)>>)
       IN  \E index \in Draw(key, UniformPairs(Len(positions))) :
              LET at == Gather(positions, index)
                  updates == SwapUpdates(call.cur, at[1], at[2])
              IN  \E t \in TensorScatterNdUpdate(call.cur, at, updates) :
                     /\ call' = [call EXCEPT !.cur = t, !.it = @ + 1]
                     /\ layer' = [layer EXCEPT ![l] = Advance(lay)]
                     /\ memo' = Record(key, index, l, Advance(lay).gen)
    /\ UNCHANGED <<slots, ctor, calls, given, result, twin>>
    /\ UNCHANGED others

\* line 223: _swap returns the row and tf.map_fn moves to the next one
SwapReturn(l) ==
    /\ call.pc = "map" /\ call.l = l
    /\ call.it = call.num_to_select[call.row]
    /\ LET swapped == Append(call.swapped, call.cur)
           iters == Append(call.iters, call.it)
       IN  IF call.row < Len(call.inputs)
           THEN call' = [call EXCEPT !.swapped = swapped, !.iters = iters,
                                     !.row = @ + 1, !.it = 0,
                                     !.cur = call.inputs[call.row + 1]]
           ELSE call' = [call EXCEPT !.swapped = swapped, !.iters = iters,
                                     !.it = 0, !.cur = <<>>, !.pc = "squeeze"]
    /\ UNCHANGED <<slots, layer, ctor, memo, calls, given, result, twin>>
    /\ UNCHANGED others

\* lines 232-236: the call returns
CallReturn(l) ==
    /\ call.pc = "squeeze" /\ call.l = l
    /\ call' = [call EXCEPT !.pc = "done"]
    /\ result' = [result EXCEPT
                    ![l] = Some(Squeeze(call.swapped, call.unbatched, call.arg[1].dtype))]
    /\ UNCHANGED <<slots, layer, ctor, memo, calls, given, twin>>
    /\ UNCHANGED others

----------------------------------------------------------------------------
(* MixtralCausalLMPreprocessor, as its tests use it                        *)
(* (src/keras_hub/src/models/mixtral/mixtral_causal_lm_preprocessor_test.py) *)

\* a text is the sequence of its words
Words == {"the", "quick", "brown", "fox"}

RECURSIVE SeqsOf(_, _)
SeqsOf(S, n) ==
    IF n = 0 THEN {<<>>}
    ELSE LET shorter == SeqsOf(S, n - 1)
         IN  shorter \cup {Append(t, x) : t \in {u \in shorter : Len(u) = n - 1}, x \in S}

Texts == SeqsOf(Words, MaxWords)

\* setUp: the keyword arguments and the text of the tests
init_kwargs == [sequence_length |-> 8]
input_data == <<"the", "quick", "brown", "fox">>

\* the ids of mixtral_test_vocab.spm that the tests show
pad_token_id == 0
start_token_id == 1
end_token_id == 2
Vocabulary == [w \in Words |->
    CASE w = "the" -> 3 [] w = "quick" -> 8 [] w = "brown" -> 4 [] w = "fox" -> 6]

tokenize(text) == [i \in 1..Len(text) |-> Vocabulary[text[i]]]

detokenize(ids) ==
    [i \in 1..Len(ids) |-> CHOOSE w \in Words : Vocabulary[w] = ids[i]]

Take(s, n) == SubSeq(s, 1, Min(n, Len(s)))
PadTo(s, n, v) == [i \in 1..n |-> IF i <= Len(s) THEN s[i] ELSE v]

\* StartEndPacker: start value, tokens cut to leave room for the end value, end
\* value, then cut or padded to sequence_length
StartEndPacker(tokens, sequence_length, add_start_value, add_end_value) ==
    LET started == IF add_start_value THEN <<start_token_id>> \o tokens ELSE tokens
        ended == IF add_end_value
                 THEN Append(Take(started, sequence_length - 1), end_token_id)
                 ELSE started
        kept == Take(ended, sequence_length)
    IN  [token_ids |-> PadTo(kept, sequence_length, pad_token_id),
         padding_mask |-> PadTo([i \in 1..Len(kept) |-> 1], sequence_length, 0)]

AllButLast(s) == SubSeq(s, 1, Len(s) - 1)

\* labels taken from the same positions as the features
LabelsUnshifted(s) == AllButLast(s)

\* token_ids[..., 1:]
AllButFirst(s) == SubSeq(s, 2, Len(s))

\* preprocessor(x): one row of features, labels and sample weights per text
CausalLMCall(cfg, batch) ==
    LET row(text) ==
            LET packed == StartEndPacker(tokenize(text), cfg.sequence_length + 1,
                                         cfg.add_start_token, cfg.add_end_token)
            IN  [token_ids |-> AllButLast(packed.token_ids),
                 padding_mask |-> AllButLast(packed.padding_mask),
                 y |-> AllButFirst(packed.token_ids),
                 sample_weight |-> AllButFirst(packed.padding_mask)]
    IN  [r \in 1..Len(batch) |-> row(batch[r])]

\* the prompt packed like the training features, end token included
GeneratePreprocessWithEnd(cfg, text) ==
    StartEndPacker(tokenize(text), cfg.sequence_length, cfg.add_start_token,
                   cfg.add_end_token)

\* preprocessor.generate_preprocess(x): the prompt, never with an end token
GeneratePreprocess(cfg, text) ==
    StartEndPacker(tokenize(text), cfg.sequence_length, cfg.add_start_token, FALSE)

\* the elements of s at the positions where keep holds
Select(s, keep) ==
    LET F[i \in 0..Len(s)] ==
            IF i = 0 THEN <<>>
            ELSE IF keep[i] THEN Append(F[i - 1], s[i]) ELSE F[i - 1]
    IN  F[Len(s)]

\* preprocessor.generate_postprocess(x): padding and special tokens are
\* dropped, the rest is turned back into text
GeneratePostprocess(x) ==
    LET keep == [i \in 1..Len(x.token_ids) |->
                    /\ x.padding_mask[i] = 1
                    /\ x.token_ids[i] \notin {pad_token_id, start_token_id, end_token_id}]
    IN  detokenize(Select(x.token_ids, keep))

LMConfigs ==
    [sequence_length : 1..init_kwargs.sequence_length,
     add_start_token : BOOLEAN,
     add_end_token : BOOLEAN]

NoLM == [pc |-> "none", cfg |-> None, op |-> "none", arg |-> None, text |-> None,
         out |-> None]

\* MixtralCausalLMPreprocessor(tokenizer, sequence_length, add_start_token,
\* add_end_token)
LMInit ==
    /\ lm.pc = "none"
    /\ \E cfg \in LMConfigs : lm' = [NoLM EXCEPT !.pc = "ready", !.cfg = Some(cfg)]
    /\ UNCHANGED <<swapVars, net, conv, run>>

\* x, y, sw = preprocessor(batch); a test calls one method of a new preprocessor
LMCall ==
    /\ lm.pc = "ready" /\ lm.op = "none"
    /\ \E batch \in {<<t>> : t \in Texts} \cup {<<input_data, input_data, input_data, input_data>>} :
          lm' = [lm EXCEPT !.op = "call", !.arg = Some(batch), !.text = None,
                           !.out = Some(CausalLMCall(lm.cfg[1], batch))]
    /\ UNCHANGED <<swapVars, net, conv, run>>

\* x = preprocessor.generate_preprocess(text)
LMGeneratePreprocess ==
    /\ lm.pc = "ready" /\ lm.op = "none"
    /\ \E text \in Texts :
          lm' = [lm EXCEPT !.op = "generate_preprocess", !.arg = Some(text),
                           !.text = Some(text),
                           !.out = Some(GeneratePreprocess(lm.cfg[1], text))]
    /\ UNCHANGED <<swapVars, net, conv, run>>

\* test_generate_postprocess: the token ids and the mask the test passes
postprocess_input_data ==
    [token_ids |-> <<1, 3, 8, 4, 6, 0, 0, 0>>, padding_mask |-> <<1, 1, 1, 1, 1, 0, 0, 0>>]

\* preprocessor.generate_postprocess(x), with x what generate_preprocess has
\* just returned or the value of the test
LMGeneratePostprocess ==
    /\ lm.pc = "ready"
    /\ \/ /\ lm.op = "generate_preprocess"
          /\ lm' = [lm EXCEPT !.op = "generate_postprocess", !.arg = lm.out,
                              !.out = Some(GeneratePostprocess(lm.out[1]))]
       \/ /\ lm.op = "none"
          /\ lm' = [lm EXCEPT !.op = "generate_postprocess",
                              !.arg = Some(postprocess_input_data), !.text = None,
                              !.out = Some(GeneratePostprocess(postprocess_input_data))]
    /\ UNCHANGED <<swapVars, net, conv, run>>

----------------------------------------------------------------------------
(* CSPDarkNetBackbone and its blocks                                       *)
(* (src/keras_nlp/src/models/csp_darknet/csp_darknet_backbone.py)          *)

\* a layer name: the dark level (0: stem or none), the part, the bottleneck
Name(level, part, i) == [level |-> level, part |-> part, i |-> i]
Sub(name, part) == [name EXCEPT !.part = part]
AutoName == Name(0, "auto", 0)

\* a keras layer put into the graph, and the block function that made it
Layer(kind, by, filters, kernel_size, strides, name) ==
    [layer |-> kind, by |-> by, filters |-> filters, kernel_size |-> kernel_size,
     strides |-> strides, name |-> name]

\* lines 202-207 and 243-248: the layer of the activation, if any
Activation(activation, fn, by) ==
    IF activation = "silu" THEN <<Layer("Lambda", by, 0, 0, 0, Sub(AutoName, fn))>>
    ELSE IF activation = "relu" THEN <<Layer("ReLU", by, 0, 0, 0, AutoName)>>
    ELSE IF activation = "leaky_relu" THEN <<Layer("LeakyReLU", by, 0, 0, 0, AutoName)>>
    ELSE <<>>

\* lines 166-211
apply_darknet_conv_block(filters, kernel_size, strides, activation, name) ==
    LET by == "apply_darknet_conv_block" IN
    <<Layer("Conv2D", by, filters, kernel_size, strides, name),
      Layer("BatchNormalization", by, 0, 0, 0, name)>>
    \o Activation(activation, "silu", by)

\* lines 214-256
apply_darknet_conv_block_depthwise(filters, kernel_size, strides, activation, name) ==
    LET by == "apply_darknet_conv_block_depthwise" IN
    <<Layer("DepthwiseConv2D", by, 0, kernel_size, strides, AutoName),
      Layer("BatchNormalization", by, 0, 0, 0, AutoName)>>
    \o Activation(activation, "swish", by)
    \o apply_darknet_conv_block(filters, 1, 1, activation, AutoName)

BlockTypes == {"basic_block", "depthwise_block"}

\* lines 356-360
ConvBlock(block_type) ==
    IF block_type = "basic_block"
    THEN "apply_darknet_conv_block_depthwise"
    ELSE "apply_darknet_conv_block"

\* lines 74-78
apply_ConvBlock(block_type) ==
    IF block_type = "depthwise_block"
    THEN "apply_darknet_conv_block_depthwise"
    ELSE "apply_darknet_conv_block"

\* a call of the block function fn
Apply(fn, filters, kernel_size, strides, activation, name) ==
    IF fn = "apply_darknet_conv_block_depthwise"
    THEN apply_darknet_conv_block_depthwise(filters, kernel_size, strides, activation, name)
    ELSE apply_darknet_conv_block(filters, kernel_size, strides, activation, name)

SppKernelSizes == <<5, 9, 13>>

\* lines 259-322
apply_spatial_pyramid_pooling_bottleneck(filters, hidden_filters, activation, name) ==
    apply_darknet_conv_block(hidden_filters, 1, 1, activation, Sub(name, "spp_conv1"))
    \o [k \in 1..Len(SppKernelSizes) |->
           Layer("MaxPooling2D", "apply_spatial_pyramid_pooling_bottleneck", 0,
                 SppKernelSizes[k], 1, Sub(name, "spp_maxpool"))]
    \o <<Layer("Concatenate", "apply_spatial_pyramid_pooling_bottleneck", 0, 0, 0,
               Sub(name, "spp_concat"))>>
    \o apply_darknet_conv_block(filters, 1, 1, activation, Sub(name, "spp_conv2"))

\* lines 378-397: bottlenecks i..num_bottlenecks-1 of the loop
RECURSIVE Bottlenecks(_, _, _, _, _, _, _)
Bottlenecks(i, num_bottlenecks, hidden_channels, block, residual, activation, name) ==
    IF i >= num_bottlenecks THEN <<>>
    ELSE apply_darknet_conv_block(hidden_channels, 1, 1, activation,
                                  [name EXCEPT !.part = "csp_bottleneck_conv1", !.i = i])
         \o Apply(block, hidden_channels, 3, 1, activation,
                  [name EXCEPT !.part = "csp_bottleneck_conv2", !.i = i])
         \o (IF residual
             THEN <<Layer("Add", "apply_cross_stage_partial", 0, 0, 0,
                          [name EXCEPT !.part = "csp_bottleneck_add", !.i = i])>>
             ELSE <<>>)
         \o Bottlenecks(i + 1, num_bottlenecks, hidden_channels, block, residual,
                        activation, name)

\* lines 325-410
apply_cross_stage_partial(filters, num_bottlenecks, residual, block_type, activation, name) ==
    LET hidden_channels == filters \div 2 IN
    apply_darknet_conv_block(hidden_channels, 1, 1, activation, Sub(name, "csp_conv1"))
    \o apply_darknet_conv_block(hidden_channels, 1, 1, activation, Sub(name, "csp_conv2"))
    \o Bottlenecks(0, num_bottlenecks, hidden_channels, ConvBlock(block_type), residual,
                   activation, name)
    \o <<Layer("Concatenate", "apply_cross_stage_partial", 0, 0, 0, Sub(name, "csp_concat"))>>
    \o apply_darknet_conv_block(filters, 1, 1, activation, Sub(name, "csp_conv3"))

\* a tensor of rank 4: its shape and its values by 0-based index
Index(shape) ==
    (0..(shape[1] - 1)) \X (0..(shape[2] - 1)) \X (0..(shape[3] - 1)) \X (0..(shape[4] - 1))

\* an image batch whose value at an index is that index, so that pixels are
\* told apart
Image(shape) == [shape |-> shape, at |-> [ix \in Index(shape) |-> ix]]

FocusShapes == (1..2) \X (1..MaxSide) \X (1..MaxSide) \X (1..2)

\* the number of indices start, start + 2, ... below n
Strided(n, start) == IF n <= start THEN 0 ELSE (n - start + 1) \div 2

\* x[..., 0::2, h0::2, :]: the first axis is always taken from index 0
StridedSliceFromZero(x, w0, h0) ==
    LET shape == <<x.shape[1], Strided(x.shape[2], 0), Strided(x.shape[3], h0), x.shape[4]>>
    IN  [shape |-> shape,
         at |-> [ix \in Index(shape) |-> x.at[<<ix[1], 2 * ix[2], h0 + 2 * ix[3], ix[4]>>]]]

\* x[..., w0::2, h0::2, :]
StridedSlice(x, w0, h0) ==
    LET shape == <<x.shape[1], Strided(x.shape[2], w0), Strided(x.shape[3], h0), x.shape[4]>>
    IN  [shape |-> shape,
         at |-> [ix \in Index(shape) |-> x.at[<<ix[1], w0 + 2 * ix[2], h0 + 2 * ix[3], ix[4]>>]]]

RECURSIVE Channels(_, _)
Channels(xs, k) == IF k = 0 THEN 0 ELSE xs[k].shape[4] + Channels(xs, k - 1)

\* layers.Concatenate()(xs): along the last axis; the other axes must agree
Concatenate(xs) ==
    IF \E k \in 1..Len(xs) : SubSeq(xs[k].shape, 1, 3) # SubSeq(xs[1].shape, 1, 3)
    THEN [exc |-> Some("ValueError"), value |-> None]
    ELSE LET shape == <<xs[1].shape[1], xs[1].shape[2], xs[1].shape[3],
                        Channels(xs, Len(xs))>>
             piece(c) == CHOOSE k \in 1..Len(xs) :
                            Channels(xs, k - 1) <= c /\ c < Channels(xs, k)
         IN  [exc |-> None,
              value |-> Some([shape |-> shape,
                              at |-> [ix \in Index(shape) |->
                                  LET k == piece(ix[4])
                                  IN  xs[k].at[<<ix[1], ix[2], ix[3],
                                                 ix[4] - Channels(xs, k - 1)>>]]])]

\* lines 153-161
apply_focus(x) ==
    Concatenate(<<StridedSlice(x, 0, 0), StridedSlice(x, 1, 0),
                  StridedSlice(x, 0, 1), StridedSlice(x, 1, 1)>>)

Filters == {2, 4}

NetArgs ==
    [stackwise_num_filters : SeqsOf(Filters, MaxLevels) \ {<<>>},
     stackwise_depth : SeqsOf(0..MaxDepth, MaxLevels) \ {<<>>},
     include_rescaling : BOOLEAN,
     block_type : BlockTypes]

CspArgs ==
    [filters : Filters, num_bottlenecks : 0..MaxDepth, residual : BOOLEAN,
     block_type : BlockTypes]

NoNet == [pc |-> "none", args |-> None, apply_ConvBlock |-> "", index |-> 0,
          graph |-> <<>>, config |-> None, x |-> None, out |-> None]

\* lines 74-84: CSPDarkNetBackbone(...) up to the input of the stem
NetInit ==
    /\ net.pc = "none"
    /\ \E args \in NetArgs :
          net' = [NoNet EXCEPT
                    !.pc = "stem", !.args = Some(args),
                    !.apply_ConvBlock = apply_ConvBlock(args.block_type),
                    !.graph = <<Layer("Input", "__init__", 0, 0, 0, AutoName)>>
                              \o (IF args.include_rescaling
                                  THEN <<Layer("Rescaling", "__init__", 0, 0, 0, AutoName)>>
                                  ELSE <<>>)]
    /\ UNCHANGED <<swapVars, lm, conv, run>>

\* lines 86-89
NetStem ==
    /\ net.pc = "stem"
    /\ LET base_channels == net.args[1].stackwise_num_filters[1] \div 2 IN
       net' = [net EXCEPT
                 !.pc = "level",
                 !.graph = @ \o <<Layer("Concatenate", "apply_focus", 0, 0, 0,
                                        Name(0, "stem_focus", 0))>>
                             \o apply_darknet_conv_block(base_channels, 3, 1, "silu",
                                                         Name(0, "stem_conv", 0))]
    /\ UNCHANGED <<swapVars, lm, conv, run>>

\* lines 90-113: one round of the loop over the dark levels
NetLevel ==
    /\ net.pc = "level"
    /\ LET args == net.args[1]
           index == net.index
           channels == args.stackwise_num_filters[index + 1]
           depth == args.stackwise_depth[index + 1]
           last == index = Len(args.stackwise_depth) - 1
           name == Name(index + 2, "", 0)
       IN  /\ index < Min(Len(args.stackwise_num_filters), Len(args.stackwise_depth))
           /\ net' = [net EXCEPT
                 !.index = @ + 1,
                 !.graph = @ \o Apply(net.apply_ConvBlock, channels, 3, 2, "silu",
                                      Sub(name, "conv"))
                             \o (IF last
                                 THEN apply_spatial_pyramid_pooling_bottleneck(
                                          channels, channels \div 2, "silu", name)
                                 ELSE <<>>)
                             \o apply_cross_stage_partial(channels, depth, ~last,
                                                          "basic_block", "silu", name)]
    /\ UNCHANGED <<swapVars, lm, conv, run>>

\* lines 115-122: the loop is over, the model is built and the config kept
NetFinish ==
    /\ net.pc = "level"
    /\ net.index = Min(Len(net.args[1].stackwise_num_filters),
                       Len(net.args[1].stackwise_depth))
    /\ net' = [net EXCEPT !.pc = "done", !.config = net.args]
    /\ UNCHANGED <<swapVars, lm, conv, run>>

\* apply_cross_stage_partial(...)(inputs), called on its own
CspApply ==
    /\ net.pc = "none"
    /\ \E args \in CspArgs :
          net' = [NoNet EXCEPT
                    !.pc = "csp", !.args = Some(args),
                    !.graph = apply_cross_stage_partial(
                                  args.filters, args.num_bottlenecks, args.residual,
                                  args.block_type, "silu", Name(0, "", 0))]
    /\ UNCHANGED <<swapVars, lm, conv, run>>

\* apply_focus()(x), called on its own
FocusApply ==
    /\ net.pc = "none"
    /\ \E shape \in FocusShapes :
          net' = [NoNet EXCEPT !.pc = "focus", !.x = Some(Image(shape)),
                               !.out = Some(apply_focus(Image(shape)))]
    /\ UNCHANGED <<swapVars, lm, conv, run>>

----------------------------------------------------------------------------
(* tools/checkpoint_conversion/convert_bart_checkpoints.py: convert_checkpoints *)

\* lines 13-17
PRESET_MAP ==
    [bart_base_en |-> "facebook/bart-base",
     bart_large_en |-> "facebook/bart-large",
     bart_large_en_cnn |-> "facebook/bart-large-cnn"]

\* every layer reads the tensors of layer 0
SourceKeyOfLayerZero(side, i, module, attr) ==
    [side |-> side, i |-> IF i >= 0 THEN 0 ELSE i, module |-> module, attr |-> attr]

\* a key of the source state dictionary: f"{side}.layers.{i}.{module}.{attr}",
\* or f"{side}.{module}.{attr}" with i = -1
SourceKey(side, i, module, attr) ==
    [side |-> side, i |-> i, module |-> module, attr |-> attr]

\* line 33: hf_wts[key], a tensor of the given number of rows, as yet unchanged
hf_wts(key, rows) == [key |-> key, rows |-> [r \in 1..rows |-> r - 1], ops |-> <<>>]

\* tensor[start:]
Slice(tensor, start) ==
    [tensor EXCEPT !.rows = SubSeq(tensor.rows, start + 1, Len(tensor.rows))]

\* .transpose(1, 0), .reshape(shape): the same numbers in another layout
Ops(tensor, ops) == [tensor EXCEPT !.ops = tensor.ops \o ops]

\* one statement of a loop body: target.module.attr.assign(hf_wts[...module.attr] ops)
St(module, attr, src_module, src_attr, ops) ==
    [module |-> module, attr |-> attr, src_module |-> src_module,
     src_attr |-> src_attr, ops |-> ops]

\* lines 58-164, in the order of the statements
EncoderBody ==
    << St("_self_attention_layer._query_dense", "kernel", "self_attn.q_proj", "weight",
          <<"transpose(1, 0)", "reshape((hidden_dim, num_heads, -1))">>),
       St("_self_attention_layer._query_dense", "bias", "self_attn.q_proj", "bias", <<"reshape((num_heads, -1))">>),
       St("_self_attention_layer._key_dense", "kernel", "self_attn.k_proj", "weight",
          <<"transpose(1, 0)", "reshape((hidden_dim, num_heads, -1))">>),
       St("_self_attention_layer._key_dense", "bias", "self_attn.k_proj", "bias", <<"reshape((num_heads, -1))">>),
       St("_self_attention_layer._value_dense", "kernel", "self_attn.v_proj", "weight",
          <<"transpose(1, 0)", "reshape((hidden_dim, num_heads, -1))">>),
       St("_self_attention_layer._value_dense", "bias", "self_attn.v_proj", "bias", <<"reshape((num_heads, -1))">>),
       St("_self_attention_layer._output_dense", "kernel", "self_attn.out_proj", "weight",
          <<"transpose(1, 0)", "reshape((num_heads, -1, hidden_dim))">>),
       St("_self_attention_layer._output_dense", "bias", "self_attn.out_proj", "bias", <<>>),
       St("_self_attention_layer_norm", "gamma", "self_attn_layer_norm", "weight", <<>>),
       St("_self_attention_layer_norm", "beta", "self_attn_layer_norm", "bias", <<>>),
       St("_feedforward_intermediate_dense", "kernel", "fc1", "weight", <<"transpose(1, 0)">>),
       St("_feedforward_intermediate_dense", "bias", "fc1", "bias", <<>>),
       St("_feedforward_output_dense", "kernel", "fc2", "weight", <<"transpose(1, 0)">>),
       St("_feedforward_output_dense", "bias", "fc2", "bias", <<>>),
       St("_feedforward_layer_norm", "gamma", "final_layer_norm", "weight", <<>>),
       St("_feedforward_layer_norm", "beta", "final_layer_norm", "bias", <<>>) >>

\* lines 180-360, in the order of the statements
DecoderBody ==
    << St("_self_attention_layer._query_dense", "kernel", "self_attn.q_proj", "weight",
          <<"transpose(1, 0)", "reshape((hidden_dim, num_heads, -1))">>),
       St("_self_attention_layer._query_dense", "bias", "self_attn.q_proj", "bias", <<"reshape((num_heads, -1))">>),
       St("_self_attention_layer._key_dense", "kernel", "self_attn.k_proj", "weight",
          <<"transpose(1, 0)", "reshape((hidden_dim, num_heads, -1))">>),
       St("_self_attention_layer._key_dense", "bias", "self_attn.k_proj", "bias", <<"reshape((num_heads, -1))">>),
       St("_self_attention_layer._value_dense", "kernel", "self_attn.v_proj", "weight",
          <<"transpose(1, 0)", "reshape((hidden_dim, num_heads, -1))">>),
       St("_self_attention_layer._value_dense", "bias", "self_attn.v_proj", "bias", <<"reshape((num_heads, -1))">>),
       St("_self_attention_layer._output_dense", "kernel", "self_attn.out_proj", "weight",
          <<"transpose(1, 0)", "reshape((num_heads, -1, hidden_dim))">>),
       St("_self_attention_layer._output_dense", "bias", "self_attn.out_proj", "bias", <<>>),
       St("_self_attention_layer_norm", "gamma", "self_attn_layer_norm", "weight", <<>>),
       St("_self_attention_layer_norm", "beta", "self_attn_layer_norm", "bias", <<>>),
       St("_cross_attention_layer._query_dense", "kernel", "encoder_attn.q_proj", "weight",
          <<"transpose(1, 0)", "reshape((hidden_dim, num_heads, -1))">>),
       St("_cross_attention_layer._query_dense", "bias", "encoder_attn.q_proj", "bias", <<"reshape((num_heads, -1))">>),
       St("_cross_attention_layer._key_dense", "kernel", "encoder_attn.k_proj", "weight",
          <<"transpose(1, 0)", "reshape((hidden_dim, num_heads, -1))">>),
       St("_cross_attention_layer._key_dense", "bias", "encoder_attn.k_proj", "bias", <<"reshape((num_heads, -1))">>),
       St("_cross_attention_layer._value_dense", "kernel", "encoder_attn.v_proj", "weight",
          <<"transpose(1, 0)", "reshape((hidden_dim, num_heads, -1))">>),
       St("_cross_attention_layer._value_dense", "bias", "encoder_attn.v_proj", "bias", <<"reshape((num_heads, -1))">>),
       St("_cross_attention_layer._output_dense", "kernel", "encoder_attn.out_proj", "weight",
          <<"transpose(1, 0)", "reshape((num_heads, -1, hidden_dim))">>),
       St("_cross_attention_layer._output_dense", "bias", "encoder_attn.out_proj", "bias", <<>>),
       St("_cross_attention_layer_norm", "gamma", "encoder_attn_layer_norm", "weight", <<>>),
       St("_cross_attention_layer_norm", "beta", "encoder_attn_layer_norm", "bias", <<>>),
       St("_feedforward_intermediate_dense", "kernel", "fc1", "weight", <<"transpose(1, 0)">>),
       St("_feedforward_intermediate_dense", "bias", "fc1", "bias", <<>>),
       St("_feedforward_output_dense", "kernel", "fc2", "weight", <<"transpose(1, 0)">>),
       St("_feedforward_output_dense", "bias", "fc2", "bias", <<>>),
       St("_feedforward_layer_norm", "gamma", "final_layer_norm", "weight", <<>>),
       St("_feedforward_layer_norm", "beta", "final_layer_norm", "bias", <<>>) >>

\* get_layer(layer_{i}).module.attr.assign(value); i is -1 for a layer whose
\* name carries no index
Assignment(lay, i, module, attr, value) ==
    [slot |-> [layer |-> lay, i |-> i, module |-> module, attr |-> attr],
     value |-> value]

\* statement st of the loop body of the given side, for layer i
Execute(side, i, st, rows) ==
    Assignment("transformer_" \o side \o "_layer", i, st.module, st.attr,
               Ops(hf_wts(SourceKey(side, i, st.src_module, st.src_attr), rows), st.ops))

\* lines 46-55 and 168-177: the position embedding and the layer norm of the
\* embeddings of one side
Embeddings(side, rows) ==
    << Assignment(side \o "_position_embedding", 0 - 1, "", "position_embeddings",
                  Slice(hf_wts(SourceKey(side, 0 - 1, "embed_positions", "weight"), rows), 2)),
       Assignment(side \o "_embeddings_layer_norm", 0 - 1, "", "gamma",
                  hf_wts(SourceKey(side, 0 - 1, "layer_norm_embedding", "weight"), rows)),
       Assignment(side \o "_embeddings_layer_norm", 0 - 1, "", "beta",
                  hf_wts(SourceKey(side, 0 - 1, "layer_norm_embedding", "bias"), rows)) >>

\* convert_checkpoints has not been called; log: the assign calls made, in order
NoConv == [pc |-> "none", preset |-> "", num_layers |-> 0, rows |-> 0, i |-> 0,
           k |-> 0, log |-> <<>>, saved |-> None]

\* lines 25-38: the target model of the preset is built without weights and the
\* state dictionary of the source model is read
ConvLoad ==
    /\ conv.pc = "none"
    /\ \E preset \in DOMAIN PRESET_MAP, num_layers \in 1..MaxLayers, rows \in 3..MaxRows :
          conv' = [NoConv EXCEPT !.pc = "shared", !.preset = preset,
                                 !.num_layers = num_layers, !.rows = rows]
    /\ UNCHANGED <<swapVars, lm, net, run>>

\* lines 40-43
ConvShared ==
    /\ conv.pc = "shared"
    /\ conv' = [conv EXCEPT
                  !.pc = "encoder_embeddings",
                  !.log = Append(@, Assignment("token_embedding", 0 - 1, "", "embeddings",
                                               hf_wts(SourceKey("shared", 0 - 1, "", "weight"),
                                                      conv.rows)))]
    /\ UNCHANGED <<swapVars, lm, net, run>>

\* the loop over range(num_layers) is entered, or left at once
EnterLoop(c, body, after) ==
    IF c.num_layers > 0 THEN [c EXCEPT !.pc = body, !.i = 0, !.k = 1]
    ELSE [c EXCEPT !.pc = after]

\* the statement after statement k of a loop body of n statements
Advanced(c, n, after) ==
    IF c.k < n THEN [c EXCEPT !.k = c.k + 1]
    ELSE IF c.i + 1 < c.num_layers THEN [c EXCEPT !.i = c.i + 1, !.k = 1]
    ELSE [c EXCEPT !.pc = after, !.i = 0, !.k = 0]

\* lines 45-57
ConvEncoderEmbeddings ==
    /\ conv.pc = "encoder_embeddings"
    /\ conv' = EnterLoop([conv EXCEPT !.log = @ \o Embeddings("encoder", conv.rows)],
                         "encoder", "decoder_embeddings")
    /\ UNCHANGED <<swapVars, lm, net, run>>

\* lines 58-164: one assign of the encoder loop
ConvEncoderAssign ==
    /\ conv.pc = "encoder"
    /\ conv' = Advanced([conv EXCEPT
                           !.log = Append(@, Execute("encoder", conv.i,
                                                     EncoderBody[conv.k], conv.rows))],
                        Len(EncoderBody), "decoder_embeddings")
    /\ UNCHANGED <<swapVars, lm, net, run>>

\* lines 166-179
ConvDecoderEmbeddings ==
    /\ conv.pc = "decoder_embeddings"
    /\ conv' = EnterLoop([conv EXCEPT !.log = @ \o Embeddings("decoder", conv.rows)],
                         "decoder", "save")
    /\ UNCHANGED <<swapVars, lm, net, run>>

\* lines 180-360: one assign of the decoder loop
ConvDecoderAssign ==
    /\ conv.pc = "decoder"
    /\ conv' = Advanced([conv EXCEPT
                           !.log = Append(@, Execute("decoder", conv.i,
                                                     DecoderBody[conv.k], conv.rows))],
                        Len(DecoderBody), "save")
    /\ UNCHANGED <<swapVars, lm, net, run>>

\* lines 362-366: the weights are saved under the preset directory and the
\* model is returned
ConvSave ==
    /\ conv.pc = "save"
    /\ conv' = [conv EXCEPT !.pc = "returned",
                            !.saved = Some(<<conv.preset, "model.h5">>)]
    /\ UNCHANGED <<swapVars, lm, net, run>>

----------------------------------------------------------------------------
(* tools/checkpoint_conversion/convert_bart_checkpoints.py: main *)

\* main has not been called; fs: the paths that exist, before: fs when main
\* was entered, loaded: the objects main has loaded or built
NoMain == [pc |-> "none", preset |-> "", before |-> {}, fs |-> {}, exc |-> None,
           hf_model_name |-> None, loaded |-> {}]

\* lines 19-22 and 515-516: app.run(main) with the required flag --preset set
\* to a key of PRESET_MAP or to another name, in a working directory that
\* holds directories of some of these names
MainBegin ==
    /\ run.pc = "none"
    /\ LET names == DOMAIN PRESET_MAP \cup {"bart_tiny_en", "gpt2_base_en"} IN
       \E preset \in names, fs \in SUBSET names :
          run' = [NoMain EXCEPT !.pc = "makedirs", !.preset = preset,
                                !.before = fs, !.fs = fs]
    /\ UNCHANGED <<swapVars, lm, net, conv>>

\* line 494: os.makedirs(FLAGS.preset)
MainMakedirs ==
    /\ run.pc = "makedirs"
    /\ run' = IF run.preset \in run.fs
              THEN [run EXCEPT !.pc = "raised", !.exc = Some("FileExistsError")]
              ELSE [run EXCEPT !.pc = "lookup", !.fs = @ \cup {run.preset}]
    /\ UNCHANGED <<swapVars, lm, net, conv>>

\* line 496: hf_model_name = PRESET_MAP[FLAGS.preset]
MainLookup ==
    /\ run.pc = "lookup"
    /\ run' = IF run.preset \in DOMAIN PRESET_MAP
              THEN [run EXCEPT !.pc = "load",
                               !.hf_model_name = Some(PRESET_MAP[run.preset])]
              ELSE [run EXCEPT !.pc = "raised", !.exc = Some("KeyError")]
    /\ UNCHANGED <<swapVars, lm, net, conv>>

\* lines 498-501: the model and the tokenizer of the source are loaded
MainLoad ==
    /\ run.pc = "load"
    /\ run' = [run EXCEPT !.pc = "convert", !.loaded = {"hf_model", "hf_tokenizer"}]
    /\ UNCHANGED <<swapVars, lm, net, conv>>

\* line 503: convert_checkpoints(hf_model) as one step of main: the target
\* model is built and filled, and line 364 saves it under the preset directory
MainConvert ==
    /\ run.pc = "convert"
    /\ run' = [run EXCEPT !.pc = "finish",
                          !.loaded = @ \cup {"keras_hub_model"},
                          !.fs = @ \cup {run.preset \o "/model.h5"}]
    /\ UNCHANGED <<swapVars, lm, net, conv>>

\* lines 504-513: extract_vocab copies the two vocabulary files (lines 369-387)
\* and check_output compares the outputs of the two models
MainFinish ==
    /\ run.pc = "finish"
    /\ run' = [run EXCEPT !.pc = "done",
                          !.loaded = @ \cup {"keras_hub_tokenizer"},
                          !.fs = @ \cup {run.preset \o "/vocab.json",
                                         run.preset \o "/merges.txt"}]
    /\ UNCHANGED <<swapVars, lm, net, conv>>

----------------------------------------------------------------------------
(* Specifications *)

InitWith(S) ==
    /\ slots = S
    /\ layer = [l \in Layers |-> NoLayer]
    /\ ctor = NoCtor
    /\ call = NoCall
    /\ memo = <<>>
    /\ calls = 0
    /\ given = [l \in Layers |-> None]
    /\ result = [l \in Layers |-> None]
    /\ twin = TRUE

OthersIdle == lm = NoLM /\ net = NoNet /\ conv = NoConv /\ run = NoMain

\* a program without RandomSwap layers
InitIdle == InitWith({}) /\ OthersIdle

\* a program with one layer
Init == InitWith({1}) /\ OthersIdle

\* a program with two layers built from the same arguments
InitPair == InitWith(Layers) /\ OthersIdle

\* the steps of the handler that is running
Step(l) ==
    \/ CtorDtypeCheck(l)
    \/ CtorSuperInit(l)
    \/ CtorAssign(l)
    \/ CtorCheckMaxSwaps(l)
    \/ CtorCheckSkip(l)
    \/ CtorHashTable(l)
    \/ SwapIter(l)
    \/ SwapReturn(l)
    \/ CallReturn(l)

\* a program with one layer takes one input
Next ==
    \E l \in Layers :
          \/ CtorBegin(l, Args)
          \/ CallBegin(l, Inputs)
          \/ Step(l)

\* the arguments and inputs of the two-layer program
PairArgs ==
    {a \in Args : /\ a.dtype = "int32"
                  /\ a.rate \in {50, 100}
                  /\ a.max_swaps = Some(1)
                  /\ a.skip_list \in {None, Some(<<1>>)}
                  /\ a.skip_fn = None /\ a.skip_py_fn = None
                  /\ a.seed # None}

PairInputs == {x \in Inputs : x.dtype = "int32"}

NextPair ==
    \/ NextInput
    \/ \E l \in Layers :
          \/ CtorBegin(l, PairArgs)
          \/ CallBegin(l, PairInputs)
          \/ Step(l)

Spec == Init /\ [][Next]_vars

SpecPair == InitPair /\ [][NextPair]_vars

\* a program with one layer that excludes tokens by skip_list only and takes
\* one input of token ids
OneArgs ==
    {a \in Args : /\ a.dtype = "int32"
                  /\ a.skip_fn = None /\ a.skip_py_fn = None
                  /\ a.seed = Some(1)}

NextOne ==
    \E l \in Layers :
          \/ CtorBegin(l, OneArgs)
          \/ CallBegin(l, PairInputs)
          \/ Step(l)

SpecOne == Init /\ [][NextOne]_vars

\* a program that builds layer 1 from arguments and layer 2 from the
\* configuration of layer 1, and calls both
ConfigArgs ==
    {a \in Args : /\ a.dtype = "int32"
                  /\ a.rate \in {0, 100}
                  /\ a.max_swaps = Some(1)
                  /\ a.skip_list \in {None, Some(<<1>>)}
                  /\ CountNone(a) >= 2}

NextConfig ==
    \/ NextInput
    \/ CtorBegin(1, ConfigArgs)
    \/ FromConfig(2)
    \/ \E l \in Layers :
          \/ CallBegin(l, PairInputs)
          \/ Step(l)

SpecConfig == InitPair /\ [][NextConfig]_vars

\* a program that converts one checkpoint
NextConv ==
    \/ ConvLoad
    \/ ConvShared
    \/ ConvEncoderEmbeddings
    \/ ConvEncoderAssign
    \/ ConvDecoderEmbeddings
    \/ ConvDecoderAssign
    \/ ConvSave

SpecConv == InitIdle /\ [][NextConv]_vars

\* the conversion script, run once
NextMain ==
    \/ MainBegin
    \/ MainMakedirs
    \/ MainLookup
    \/ MainLoad
    \/ MainConvert
    \/ MainFinish

SpecMain == InitIdle /\ [][NextMain]_vars

\* a program that builds one preprocessor and calls its methods
NextLM ==
    \/ LMInit
    \/ LMCall
    \/ LMGeneratePreprocess
    \/ LMGeneratePostprocess

SpecLM == InitIdle /\ [][NextLM]_vars

\* a program that builds one backbone, or applies one block on its own
NextNet ==
    \/ NetInit
    \/ NetStem
    \/ NetLevel
    \/ NetFinish
    \/ CspApply
    \/ FocusApply

SpecNet == InitIdle /\ [][NextNet]_vars

----------------------------------------------------------------------------
(* Properties of RandomSwap.call *)

\* the sequences of a value passed to or returned from call
RowsOf(x) == IF x.rank = 1 THEN <<x.data>> ELSE x.data

CountOf(seq, v) == Cardinality({i \in 1..Len(seq) : seq[i] = v})
SameTokens(a, b) == \A v \in Tokens : CountOf(a, v) = CountOf(b, v)

\* the configured exclusion holds for token t of an input of the given dtype
ExcludedBy(lay, dtype, t) ==
    \/ lay.skip_list # None /\ \E i \in 1..Len(lay.skip_list[1]) : lay.skip_list[1][i] = t
    \/ lay.skip_fn # None /\ t \in lay.skip_fn[1]
    \/ lay.skip_py_fn # None
         /\ PyValue(IF dtype = "string" THEN "str" ELSE "int", t) \in lay.skip_py_fn[1]

EligibleCount(lay, dtype, row) ==
    Cardinality({p \in 1..Len(row) : ~ExcludedBy(lay, dtype, row[p])})

InCall == call.pc # "idle"
Returned == call.pc = "done"
CallInput == call.arg[1]
CallLayer == layer[call.l]
CallOutput == result[call.l][1]

\* the rows of the call as they stand: finished rows, the row being swapped,
\* and the rows not yet reached
RowNow(r) ==
    IF r <= Len(call.swapped) THEN call.swapped[r]
    ELSE IF call.pc = "map" /\ r = call.row THEN call.cur
    ELSE RowsOf(CallInput)[r]

\* iterations done so far on row r
ItersNow(r) ==
    IF r <= Len(call.iters) THEN call.iters[r]
    ELSE IF call.pc = "map" /\ r = call.row THEN call.it
    ELSE 0

\* C1: at every point of a call and in its result there are as many sequences
\* as in the input, and sequence r is as long as input sequence r.
C1_ShapePreserved ==
    InCall =>
        LET rows == RowsOf(CallInput) IN
        /\ \A r \in 1..Len(rows) : Len(RowNow(r)) = Len(rows[r])
        /\ Returned =>
              /\ Len(RowsOf(CallOutput)) = Len(rows)
              /\ \A r \in 1..Len(rows) : Len(RowsOf(CallOutput)[r]) = Len(rows[r])

\* a batch of two rows of different lengths came back changed after a row was
\* swapped twice
C1_Witness ==
    /\ Returned
    /\ CallInput.rank = 2 /\ Len(CallInput.data) = 2
    /\ Len(CallInput.data[1]) # Len(CallInput.data[2])
    /\ \E r \in 1..2 : call.iters[r] >= 2
    /\ CallOutput.data # CallInput.data

\* C2: after every swap iteration and in the result, every sequence holds
\* exactly the tokens of its input sequence, each as often as there.
C2_TokensPermuted ==
    InCall =>
        LET rows == RowsOf(CallInput) IN
        /\ \A r \in 1..Len(rows) : SameTokens(RowNow(r), rows[r])
        /\ Returned =>
              /\ Len(RowsOf(CallOutput)) = Len(rows)
              /\ \A r \in 1..Len(rows) : SameTokens(RowsOf(CallOutput)[r], rows[r])

\* the second iteration on a row of three different tokens has left it reordered
C2_Witness ==
    /\ call.pc = "map"
    /\ call.it = 2
    /\ Cardinality({call.cur[p] : p \in 1..Len(call.cur)}) = 3
    /\ call.cur # RowsOf(CallInput)[call.row]

\* C3: every excluded token stays where it is, at every point of a call and in
\* the result, and the positions swaps are drawn from hold no excluded token.
C3_ExcludedStay ==
    InCall =>
        LET rows == RowsOf(CallInput)
            excluded(t) == ExcludedBy(CallLayer, CallInput.dtype, t)
        IN
        /\ \A r \in 1..Len(rows) : \A p \in 1..Len(rows[r]) :
              excluded(rows[r][p]) =>
                 /\ RowNow(r)[p] = rows[r][p]
                 /\ Returned => RowsOf(CallOutput)[r][p] = rows[r][p]
        /\ \A r \in 1..Len(call.positions) : \A k \in 1..Len(call.positions[r]) :
              ~excluded(rows[r][call.positions[r][k] + 1])

\* a row with an excluded token between two others came back with the others
\* exchanged
C3_Witness ==
    /\ Returned
    /\ \E r \in 1..Len(RowsOf(CallInput)) :
          LET row == RowsOf(CallInput)[r]
              out == RowsOf(CallOutput)[r]
          IN  /\ Len(row) = 3
              /\ ExcludedBy(CallLayer, CallInput.dtype, row[2])
              /\ out[1] = row[3] /\ out[3] = row[1] /\ out[1] # row[1]

\* C4: a row is swapped at most min(max_swaps, binomial count, eligible tokens)
\* times, without the first when max_swaps is None, and the binomial count is
\* drawn with the eligible count as its number of trials.
C4_SwapCountBounded ==
    InCall =>
        LET rows == RowsOf(CallInput)
            lay == CallLayer
        IN  \A r \in 1..Len(rows) :
               LET eligible == EligibleCount(lay, CallInput.dtype, rows[r]) IN
               /\ ItersNow(r) <= call.binom[r]
               /\ ItersNow(r) <= eligible
               /\ lay.max_swaps # None => ItersNow(r) <= lay.max_swaps[1]
               /\ call.binom[r] <= eligible
               /\ lay.rate = 100 => call.binom[r] = eligible

\* a row with an excluded token was swapped once for each of its other tokens
C4_Witness ==
    /\ Returned
    /\ CallLayer.max_swaps = None
    /\ \E r \in 1..Len(RowsOf(CallInput)) :
          LET row == RowsOf(CallInput)[r]
              eligible == EligibleCount(CallLayer, CallInput.dtype, row)
          IN  /\ eligible = 2 /\ Len(row) = 3
              /\ call.iters[r] = 2 /\ call.binom[r] = 2

\* C5: layers built with the same seed and the same other arguments, called with
\* the same inputs one after the other, return the same value at every call.
C5_SameSeedSameOutput ==
    (/\ RoundOver
     /\ twin
     /\ \A k \in slots :
           /\ given[k] = given[1]
           /\ [layer[k] EXCEPT !.gen = None] = [layer[1] EXCEPT !.gen = None])
    => \A k \in slots : result[k] = result[1]

\* two layers have both reordered their second input, and in the same way
C5_Witness ==
    /\ slots = Layers
    /\ calls = 2
    /\ RoundOver
    /\ twin
    /\ given[2] = given[1]
    /\ layer[1].seed = layer[2].seed
    /\ layer[1].gen[1] >= 4
    /\ result[1][1].data # given[1][1].data
    /\ result[2] = result[1]

\* the 0-based positions of a row that hold a token that is not excluded
EligiblePositions(lay, dtype, row) ==
    {p \in 0..(Len(row) - 1) : ~ExcludedBy(lay, dtype, row[p + 1])}

\* t with the values at positions p and q exchanged
Exchange(t, p, q) ==
    [i \in 1..Len(t) |->
        IF i = p + 1 THEN t[q + 1] ELSE IF i = q + 1 THEN t[p + 1] ELSE t[i]]

SampledCount(lay, binom, eligible) ==
    Min(IF lay.max_swaps = None THEN binom ELSE Min(binom, lay.max_swaps[1]), eligible)

C16_Step ==
    (call.pc = "map" /\ call'.pc \in {"map", "squeeze"}) =>
        LET r == call.row
            eligible == EligiblePositions(CallLayer, CallInput.dtype, RowsOf(CallInput)[r])
            count == SampledCount(CallLayer, call.binom[r], Cardinality(eligible))
        IN  IF call'.pc = "map" /\ call'.row = r
            THEN /\ call.it < count
                 /\ call'.it = call.it + 1
                 /\ \E p \in eligible : \E q \in eligible :
                       call'.cur = Exchange(call.cur, p, q)
            ELSE /\ call.it = count
                 /\ call'.swapped = Append(call.swapped, call.cur)
                 /\ call'.iters = Append(call.iters, count)

\* while iterations are left, every pair of eligible positions can be the next
\* one exchanged
C16_AnyPair ==
    (call.pc = "map" /\ call.it < call.num_to_select[call.row]) =>
        LET eligible == EligiblePositions(CallLayer, CallInput.dtype,
                                          RowsOf(CallInput)[call.row])
        IN  \A p \in eligible : \A q \in eligible :
               ENABLED (SwapIter(call.l) /\ call'.cur = Exchange(call.cur, p, q))

\* C16: on every row the loop of _swap runs exactly
\* min(binomial count, max_swaps, eligible count) times (without max_swaps when
\* it is None); every iteration starts from the row the one before left and
\* leaves it with the values at two eligible positions, possibly the same one,
\* exchanged and all other positions as they were, any pair of eligible
\* positions being possible; the row is returned only after the last iteration.
C16_ExactSwaps == []C16_AnyPair /\ [][C16_Step]_vars

\* a row of three eligible tokens has been rotated, which takes two exchanges
C16_Witness ==
    /\ call.pc = "map"
    /\ call.it = 2
    /\ Len(call.cur) = 3
    /\ LET row == RowsOf(CallInput)[call.row]
       IN  call.cur = <<row[2], row[3], row[1]>>

\* C17: a row that is empty, or whose tokens are all excluded, or any row when
\* rate = 0 or max_swaps = 0, has a count of 0; a row with a count of 0 goes
\* through no swap iteration (so no index is drawn for it) and is returned as
\* given; a row with exactly one eligible token is returned as given too.
C17_ZeroCountUntouched ==
    InCall =>
        LET rows == RowsOf(CallInput)
            lay == CallLayer
        IN  \A r \in 1..Len(rows) :
               LET eligible == EligibleCount(lay, CallInput.dtype, rows[r])
                   same == /\ RowNow(r) = rows[r]
                           /\ Returned => RowsOf(CallOutput)[r] = rows[r]
               IN
               /\ (\/ Len(rows[r]) = 0
                   \/ eligible = 0
                   \/ lay.rate = 0
                   \/ lay.max_swaps = Some(0))
                  => call.num_to_select[r] = 0
               /\ call.num_to_select[r] = 0 => ItersNow(r) = 0 /\ same
               /\ eligible = 1 => same

\* a batch came back with an empty row, and with a row whose only eligible
\* token went through a swap iteration
C17_Witness ==
    /\ Returned
    /\ \E r \in 1..Len(RowsOf(CallInput)) : Len(RowsOf(CallInput)[r]) = 0
    /\ \E r \in 1..Len(RowsOf(CallInput)) :
          /\ Len(RowsOf(CallInput)[r]) >= 2
          /\ EligibleCount(CallLayer, CallInput.dtype, RowsOf(CallInput)[r]) = 1
          /\ call.iters[r] = 1

\* the step enters a call of layer l, which draws the binomial counts
DrewCounts(l) == call.pc \notin {"map", "squeeze"} /\ call'.pc = "map" /\ call'.l = l

\* the step is a swap iteration of layer l, which draws a pair of indices
DrewIndex(l) ==
    /\ call.pc = "map" /\ call.l = l
    /\ call'.pc = "map" /\ call'.row = call.row /\ call'.it = call.it + 1

C18_Step ==
    /\ \A l \in slots :
          layer[l].gen # None =>
             layer'[l].gen =
                Some(layer[l].gen[1] + (IF DrewCounts(l) \/ DrewIndex(l) THEN 1 ELSE 0))
    /\ \A k \in DOMAIN memo' \ DOMAIN memo :
          /\ k.seed = layer[call'.l].seed
          /\ k.ctr = layer[call'.l].gen[1]

\* in the first call of a layer the generator has moved once for the counts and
\* once for every swap iteration done
C18_FirstCall ==
    (calls = 1 /\ InCall /\ call.l = 1) =>
        layer[1].gen[1] =
            1 + Sum([r \in 1..Len(RowsOf(CallInput)) |-> ItersNow(r)])

\* C18: the state of a layer's generator moves by exactly one at the draw of
\* the binomial counts of a call and at every swap iteration, and at no other
\* step; each draw is seeded with the state before the move, so no state seeds
\* two draws, within a call or across the calls of a layer, and a call uses
\* 1 + its number of swap iterations of them.
C18_SeedsNeverReused == []C18_FirstCall /\ [][C18_Step]_vars

\* a layer has returned from its second call, which swapped, after a first call
\* that had used two seeds or more
C18_Witness ==
    /\ calls = 2
    /\ Returned
    /\ call.l = 1
    /\ Sum(call.iters) >= 1
    /\ layer[1].gen[1] - 1 - Sum(call.iters) >= 2

----------------------------------------------------------------------------
(* Properties of RandomSwap.__init__ *)

InCtor == ctor.args # None
CtorArgs == ctor.args[1]
CtorLayer == layer[ctor.l]
CtorEnded == ctor.pc \in {"done", "raised"}
RaisedAt(pc) ==
    ctor.pc = "raised" /\ ctor.at = Some(pc) /\ ctor.exc = Some("ValueError")

Supplied(a) ==
    Cardinality({k \in {"skip_list", "skip_fn", "skip_py_fn"} : a[k] # None})
NegativeMaxSwaps(a) == a.max_swaps # None /\ a.max_swaps[1] < 0
IntOrString(a) == is_int_dtype(a.dtype) \/ is_string_dtype(a.dtype)

\* C6: with two or three of skip_list, skip_fn, skip_py_fn supplied the
\* constructor never returns a layer; it ends with a ValueError, raised by the
\* check of the three options when the other arguments are good.
C6_SkipOptionsExclusive ==
    (InCtor /\ Supplied(CtorArgs) > 1) =>
        /\ ctor.pc # "done"
        /\ CtorLayer.state # "ready"
        /\ ctor.pc = "raised" => ctor.exc = Some("ValueError")
        /\ (ctor.pc = "raised" /\ IntOrString(CtorArgs) /\ ~NegativeMaxSwaps(CtorArgs))
              => RaisedAt("check_skip")

\* two options were supplied and the check of the options raised
C6_Witness ==
    /\ InCtor
    /\ Supplied(CtorArgs) = 2
    /\ RaisedAt("check_skip")
    /\ CtorLayer.state = "failed"

\* C7: a negative max_swaps ends the constructor with a ValueError; None and
\* every max_swaps >= 0 pass the check, and with the other arguments good the
\* constructor returns the layer.
C7_MaxSwapsNonNegative ==
    InCtor =>
        /\ NegativeMaxSwaps(CtorArgs) =>
              /\ ctor.pc # "done"
              /\ CtorLayer.state # "ready"
              /\ ctor.pc = "raised" => ctor.exc = Some("ValueError")
        /\ RaisedAt("check_max_swaps") => NegativeMaxSwaps(CtorArgs)
        /\ (/\ CtorEnded
            /\ ~NegativeMaxSwaps(CtorArgs)
            /\ IntOrString(CtorArgs)
            /\ Supplied(CtorArgs) <= 1)
           => ctor.pc = "done" /\ CtorLayer.state = "ready"

\* max_swaps = -1 was refused by its check
C7_Witness ==
    /\ InCtor
    /\ CtorArgs.max_swaps = Some(0 - 1)
    /\ RaisedAt("check_max_swaps")

\* C8: with a dtype that is neither an integer nor a string type the constructor
\* does nothing but the dtype check, which raises a ValueError: the base class is
\* not initialised, no attribute is set and no generator is made.  Integer and
\* string dtypes pass the check.
C8_DtypeCheckedFirst ==
    InCtor =>
        /\ ~IntOrString(CtorArgs) =>
              /\ ctor.pc \in {"dtype_check", "raised"}
              /\ ctor.pc = "raised" => RaisedAt("dtype_check")
              /\ ~CtorLayer.base
              /\ CtorLayer.gen = None
              /\ CtorLayer.rate = NoLayer.rate
        /\ IntOrString(CtorArgs) => ~RaisedAt("dtype_check")

\* float32 was refused although max_swaps and the skip options were bad as well
C8_Witness ==
    /\ InCtor
    /\ CtorArgs.dtype = "float32"
    /\ NegativeMaxSwaps(CtorArgs)
    /\ Supplied(CtorArgs) = 3
    /\ RaisedAt("dtype_check")

\* C9: a call returns a value of the rank it was given, and a layer called
\* with one sequence returns row 0 of what a layer in the same state returns
\* for the batch holding just that sequence.
C9_UnbatchedSymmetric ==
    /\ \A k \in slots :
          result[k] # None =>
             /\ result[k][1].rank = given[k][1].rank
             /\ given[k][1].rank = 2 => Len(result[k][1].data) = Len(given[k][1].data)
    /\ (/\ RoundOver
        /\ twin
        /\ \A k \in slots : [layer[k] EXCEPT !.gen = None] = [layer[1] EXCEPT !.gen = None])
       => \A a \in slots : \A b \in slots :
             (/\ given[a][1].rank = 1
              /\ given[b][1] = [given[a][1] EXCEPT !.rank = 2, !.data = <<given[a][1].data>>])
             => result[b][1].data = <<result[a][1].data>>

\* one layer reordered a sequence and the other the batch of that sequence
C9_Witness ==
    /\ slots = Layers
    /\ RoundOver
    /\ twin
    /\ given[1][1].rank = 1
    /\ given[2][1].rank = 2
    /\ result[1][1].rank = 1
    /\ result[1][1].data # given[1][1].data
    /\ result[2][1].data = <<result[1][1].data>>

\* no option supplied, or only an empty skip_list
NothingSkipped(a) ==
    a.skip_list \in {None, Some(<<>>)} /\ a.skip_fn = None /\ a.skip_py_fn = None

\* C10: with none of the three options supplied, or only an empty skip_list,
\* the constructor returns the layer (the other arguments being good), and in
\* its calls every position of every sequence is eligible.
C10_NothingSkippedByDefault ==
    /\ (/\ InCtor
        /\ CtorEnded
        /\ NothingSkipped(CtorArgs)
        /\ IntOrString(CtorArgs)
        /\ ~NegativeMaxSwaps(CtorArgs))
       => ctor.pc = "done" /\ CtorLayer.state = "ready"
    /\ (InCall /\ NothingSkipped(CallLayer)) =>
          LET rows == RowsOf(CallInput) IN
          /\ Len(call.positions) = Len(rows)
          /\ \A r \in 1..Len(rows) :
                call.positions[r] = [p \in 1..Len(rows[r]) |-> p - 1]

\* a layer built without any option exchanged the first and the last token of
\* a sequence of three
C10_Witness ==
    /\ Returned
    /\ CallLayer.skip_list = None /\ CallLayer.skip_fn = None
    /\ CallLayer.skip_py_fn = None
    /\ CallInput.rank = 1
    /\ Len(CallInput.data) = 3
    /\ CallOutput.data = <<CallInput.data[3], CallInput.data[2], CallInput.data[1]>>
    /\ CallOutput.data # CallInput.data

----------------------------------------------------------------------------
(* Properties of RandomSwap.get_config *)

\* the constructor has returned layer l
Built(l) == ctor.pc = "done" /\ ctor.l = l /\ layer[l].state = "ready"

C19_ConfigOfArgs ==
    /\ \A l \in slots :
          Built(l) =>
             LET config == GetConfig(layer[l])
                 a == ctor.args[1]
             IN  /\ config.rate = a.rate
                 /\ config.max_swaps = a.max_swaps
                 /\ config.skip_list = a.skip_list
                 /\ config.skip_fn = a.skip_fn
                 /\ config.skip_py_fn = a.skip_py_fn
                 /\ config.seed # None
                 /\ config.seed[1] \in Seeds
                 /\ config.seed[1] = layer[l].seed
                 /\ a.seed # None => config.seed = a.seed
    /\ layer[2].state = "ready" =>
          /\ GetConfig(layer[2]) = GetConfig(layer[1])
          /\ layer[2].seed = layer[1].seed

C19_ConfigKept ==
    \A l \in slots :
       layer[l].state = "ready" => GetConfig(layer'[l]) = GetConfig(layer[l])

\* C19: get_config returns the rate, max_swaps, skip_list, skip_fn and
\* skip_py_fn the constructor was given and the seed the layer uses, which is
\* never None, also when no seed was given; a layer built from the
\* configuration has the same configuration and seed; no step after the
\* construction, calls included, changes what get_config returns.
C19_ConfigRoundTrip == []C19_ConfigOfArgs /\ [][C19_ConfigKept]_vars

\* layer 1 was built without a seed, layer 2 from its configuration, and both
\* have been called
C19_Witness ==
    /\ layer[1].seed = 2
    /\ layer[2].state = "ready"
    /\ calls = 2
    /\ Returned
    /\ call.l = 2
    /\ Sum(call.iters) >= 1

----------------------------------------------------------------------------
(* Properties of convert_checkpoints *)

\* what a module of a transformer layer of the target model is for
TargetRole ==
    [m \in {"_self_attention_layer._query_dense", "_self_attention_layer._key_dense",
            "_self_attention_layer._value_dense", "_self_attention_layer._output_dense",
            "_self_attention_layer_norm",
            "_cross_attention_layer._query_dense", "_cross_attention_layer._key_dense",
            "_cross_attention_layer._value_dense", "_cross_attention_layer._output_dense",
            "_cross_attention_layer_norm",
            "_feedforward_intermediate_dense", "_feedforward_output_dense",
            "_feedforward_layer_norm"} |->
       CASE m = "_self_attention_layer._query_dense" -> "self-attention query"
         [] m = "_self_attention_layer._key_dense" -> "self-attention key"
         [] m = "_self_attention_layer._value_dense" -> "self-attention value"
         [] m = "_self_attention_layer._output_dense" -> "self-attention output"
         [] m = "_self_attention_layer_norm" -> "self-attention layer norm"
         [] m = "_cross_attention_layer._query_dense" -> "cross-attention query"
         [] m = "_cross_attention_layer._key_dense" -> "cross-attention key"
         [] m = "_cross_attention_layer._value_dense" -> "cross-attention value"
         [] m = "_cross_attention_layer._output_dense" -> "cross-attention output"
         [] m = "_cross_attention_layer_norm" -> "cross-attention layer norm"
         [] m = "_feedforward_intermediate_dense" -> "feed-forward first"
         [] m = "_feedforward_output_dense" -> "feed-forward second"
         [] m = "_feedforward_layer_norm" -> "feed-forward layer norm"]

\* what a module of a layer of the source model is for
SourceRole ==
    [m \in {"self_attn.q_proj", "self_attn.k_proj", "self_attn.v_proj",
            "self_attn.out_proj", "self_attn_layer_norm",
            "encoder_attn.q_proj", "encoder_attn.k_proj", "encoder_attn.v_proj",
            "encoder_attn.out_proj", "encoder_attn_layer_norm",
            "fc1", "fc2", "final_layer_norm"} |->
       CASE m = "self_attn.q_proj" -> "self-attention query"
         [] m = "self_attn.k_proj" -> "self-attention key"
         [] m = "self_attn.v_proj" -> "self-attention value"
         [] m = "self_attn.out_proj" -> "self-attention output"
         [] m = "self_attn_layer_norm" -> "self-attention layer norm"
         [] m = "encoder_attn.q_proj" -> "cross-attention query"
         [] m = "encoder_attn.k_proj" -> "cross-attention key"
         [] m = "encoder_attn.v_proj" -> "cross-attention value"
         [] m = "encoder_attn.out_proj" -> "cross-attention output"
         [] m = "encoder_attn_layer_norm" -> "cross-attention layer norm"
         [] m = "fc1" -> "feed-forward first"
         [] m = "fc2" -> "feed-forward second"
         [] m = "final_layer_norm" -> "feed-forward layer norm"]

EncoderRoles ==
    {"self-attention query", "self-attention key", "self-attention value",
     "self-attention output", "self-attention layer norm", "feed-forward first",
     "feed-forward second", "feed-forward layer norm"}
DecoderRoles ==
    EncoderRoles \cup {"cross-attention query", "cross-attention key",
                       "cross-attention value", "cross-attention output",
                       "cross-attention layer norm"}

\* kernels and gammas are the weights of the source, biases and betas its biases
IsLayerNorm(role) ==
    role \in {"self-attention layer norm", "cross-attention layer norm",
              "feed-forward layer norm"}
SourceAttr(role, attr) ==
    CASE attr = "kernel" /\ ~IsLayerNorm(role) -> "weight"
      [] attr = "gamma" /\ IsLayerNorm(role) -> "weight"
      [] attr = "bias" /\ ~IsLayerNorm(role) -> "bias"
      [] attr = "beta" /\ IsLayerNorm(role) -> "bias"
      [] OTHER -> "none"

Assigned == {conv.log[n] : n \in 1..Len(conv.log)}
AssignedTo(slot) == {n \in 1..Len(conv.log) : conv.log[n].slot = slot}
Converted == conv.pc = "returned"
SideOf(lay) ==
    CASE lay = "transformer_encoder_layer" -> "encoder"
      [] lay = "transformer_decoder_layer" -> "decoder"
      [] OTHER -> "none"
LayerSlots(side, i) ==
    {a.slot : a \in {b \in Assigned : SideOf(b.slot.layer) = side /\ b.slot.i = i}}
AllRows(rows) == [r \in 1..rows |-> r - 1]

\* no weight is assigned twice
C20_Once == \A a \in Assigned : Cardinality(AssignedTo(a.slot)) = 1

\* a weight of a transformer layer comes from the tensor of its side, index and role
C20_SameSource ==
    \A a \in Assigned :
       SideOf(a.slot.layer) # "none" =>
          /\ a.slot.i \in 0..(conv.num_layers - 1)
          /\ a.slot.module \in DOMAIN TargetRole
          /\ a.value.key.module \in DOMAIN SourceRole
          /\ a.value.key.side = SideOf(a.slot.layer)
          /\ a.value.key.i = a.slot.i
          /\ SourceRole[a.value.key.module] = TargetRole[a.slot.module]
          /\ a.value.key.attr = SourceAttr(TargetRole[a.slot.module], a.slot.attr)
          /\ a.value.rows = AllRows(conv.rows)

\* the value the named weight was given, if it was given one value only
ValueOf(lay, attr) ==
    {a.value : a \in {b \in Assigned : b.slot.layer = lay /\ b.slot.attr = attr}}
From(side, module, attr, rows) ==
    {[key |-> [side |-> side, i |-> 0 - 1, module |-> module, attr |-> attr],
      rows |-> rows, ops |-> <<>>]}

\* after the conversion every layer has its 16 or 26 weights, and the
\* embeddings theirs
C20_Complete ==
    Converted =>
       /\ \A i \in 0..(conv.num_layers - 1) :
             /\ Cardinality(LayerSlots("encoder", i)) = 16
             /\ {TargetRole[t.module] : t \in LayerSlots("encoder", i)} = EncoderRoles
             /\ Cardinality(LayerSlots("decoder", i)) = 26
             /\ {TargetRole[t.module] : t \in LayerSlots("decoder", i)} = DecoderRoles
       /\ Len(conv.log) = 7 + (16 + 26) * conv.num_layers
       /\ ValueOf("token_embedding", "embeddings")
             = From("shared", "", "weight", AllRows(conv.rows))
       /\ \A side \in {"encoder", "decoder"} :
             /\ ValueOf(side \o "_position_embedding", "position_embeddings")
                   = From(side, "embed_positions", "weight",
                          [r \in 1..(conv.rows - 2) |-> r + 1])
             /\ ValueOf(side \o "_embeddings_layer_norm", "gamma")
                   = From(side, "layer_norm_embedding", "weight", AllRows(conv.rows))
             /\ ValueOf(side \o "_embeddings_layer_norm", "beta")
                   = From(side, "layer_norm_embedding", "bias", AllRows(conv.rows))

\* C20: convert_checkpoints assigns no weight twice; a weight of
\* transformer_encoder_layer_i or transformer_decoder_layer_i is assigned from
\* the source tensor of the same side, the same index i and the same role; when
\* it returns, every layer i in 0..num_layers-1 has its 16 (encoder) or 26
\* (decoder) weights assigned, the token embedding comes from shared.weight,
\* the embedding layer norms from their source, and each position embedding
\* holds the source rows from index 2 on.
C20_LayerByLayer == C20_Once /\ C20_SameSource /\ C20_Complete

\* a model of more than one layer and a position table of more than three rows
\* has been converted
C20_Witness == Converted /\ conv.num_layers >= 2 /\ conv.rows >= 4

----------------------------------------------------------------------------
(* Properties of main of convert_bart_checkpoints.py *)

\* the preset directory was there when main was entered, or the preset is not
\* a key of PRESET_MAP
CannotProceed ==
    /\ run.pc # "none"
    /\ run.preset \in run.before \/ run.preset \notin DOMAIN PRESET_MAP

\* C21: when the preset directory already exists or the preset is not a key of
\* PRESET_MAP, main loads no model and does not end normally, and when it has
\* ended with its error the file system holds exactly the paths it held when
\* main was entered.
C21_FailsBeforeAnyWork ==
    CannotProceed =>
       /\ run.loaded = {}
       /\ run.pc \in {"makedirs", "lookup", "raised"}
       /\ run.pc = "raised" => run.fs = run.before

----------------------------------------------------------------------------
(* Properties of MixtralCausalLMPreprocessor *)

\* what the tests expect
test_preprocessor_basics ==
    <<[token_ids |-> <<1, 3, 8, 4, 6, 2, 0, 0>>,
       padding_mask |-> <<1, 1, 1, 1, 1, 1, 0, 0>>,
       y |-> <<3, 8, 4, 6, 2, 0, 0, 0>>,
       sample_weight |-> <<1, 1, 1, 1, 1, 0, 0, 0>>]>>

test_no_start_end_token ==
    [r \in 1..4 |->
        [token_ids |-> <<3, 8, 4, 6, 0, 0, 0, 0>>,
         padding_mask |-> <<1, 1, 1, 1, 0, 0, 0, 0>>,
         y |-> <<8, 4, 6, 0, 0, 0, 0, 0>>,
         sample_weight |-> <<1, 1, 1, 0, 0, 0, 0, 0>>]]

test_generate_preprocess ==
    [token_ids |-> <<1, 3, 8, 4, 6, 0, 0, 0>>, padding_mask |-> <<1, 1, 1, 1, 1, 0, 0, 0>>]

LMCfg == lm.cfg[1]
LMDid(op) == lm.pc = "ready" /\ lm.op = op
TestConfig(start, end) ==
    LMCfg = [sequence_length |-> init_kwargs.sequence_length,
             add_start_token |-> start, add_end_token |-> end]

\* the mask is 1 on the first k positions only, and padding fills the rest
MaskedPrefix(token_ids, padding_mask, k) ==
    \A i \in 1..Len(token_ids) :
        /\ padding_mask[i] = (IF i <= k THEN 1 ELSE 0)
        /\ (token_ids[i] = pad_token_id) = (i > k)

\* C11: for every text and every choice of add_start_token / add_end_token,
\* token_ids and padding_mask have sequence_length entries, padding_mask is 1
\* exactly on the positions that hold a token, label i is the token after
\* token_ids[i] and sample weight i is the mask entry after padding_mask[i];
\* the outputs the two tests expect are the outputs computed.
C11_LabelsShiftedByOne ==
    LMDid("call") =>
        LET batch == lm.arg[1]
            out == lm.out[1]
            n == LMCfg.sequence_length
        IN
        /\ Len(out) = Len(batch)
        /\ \A r \in 1..Len(batch) :
              LET x == out[r]
                  s == IF LMCfg.add_start_token THEN 1 ELSE 0
                  e == IF LMCfg.add_end_token THEN 1 ELSE 0
                  packed == Min(n + 1, Len(batch[r]) + s + e)
              IN
              /\ Len(x.token_ids) = n /\ Len(x.padding_mask) = n
              /\ Len(x.y) = n /\ Len(x.sample_weight) = n
              /\ MaskedPrefix(x.token_ids, x.padding_mask, Min(n, packed))
              /\ \A i \in 1..(n - 1) :
                    /\ x.y[i] = x.token_ids[i + 1]
                    /\ x.sample_weight[i] = x.padding_mask[i + 1]
              /\ x.sample_weight[n] = (IF packed = n + 1 THEN 1 ELSE 0)
              /\ (x.y[n] = pad_token_id) = (packed <= n)
              /\ (s = 1) => x.token_ids[1] = start_token_id
        /\ (TestConfig(TRUE, TRUE) /\ batch = <<input_data>>)
              => out = test_preprocessor_basics
        /\ (TestConfig(FALSE, FALSE) /\ Len(batch) = 4)
              => out = test_no_start_end_token

\* the call of test_preprocessor_basics has returned what the test expects
C11_Witness ==
    /\ LMDid("call")
    /\ TestConfig(TRUE, TRUE)
    /\ lm.arg[1] = <<input_data>>
    /\ lm.out[1] = test_preprocessor_basics
    /\ lm.out[1][1].y[5] = end_token_id

----------------------------------------------------------------------------
(* Properties of CSPDarkNetBackbone and its blocks *)

\* the block a block_type stands for in the docstrings (lines 37-40, 343-346)
ConvBlockAsDocumented(block_type) ==
    IF block_type = "depthwise_block"
    THEN "apply_darknet_conv_block_depthwise"
    ELSE "apply_darknet_conv_block"

NetArg == net.args[1]
GraphLayers == {net.graph[k] : k \in 1..Len(net.graph)}

\* the 3x3 convolutions of the bottlenecks of cross stage partial blocks: in a
\* cross stage partial block only a bottleneck has a convolution of kernel size 3
Is3x3(l) == l.layer \in {"Conv2D", "DepthwiseConv2D"} /\ l.kernel_size = 3
Bottleneck3x3 ==
    {k \in 1..Len(net.graph) :
        /\ Is3x3(net.graph[k])
        /\ net.graph[k].strides = 1
        /\ net.graph[k].name.part # "stem_conv"}

\* the 3x3 convolutions that open the dark levels (strides 2)
Dark3x3 == {k \in 1..Len(net.graph) : Is3x3(net.graph[k]) /\ net.graph[k].strides = 2}

\* C13: apply_cross_stage_partial makes the 3x3 convolution of each of its
\* num_bottlenecks bottlenecks with the block its docstring names for
\* block_type: the depthwise block for "depthwise_block", the basic block for
\* "basic_block".
C13_BottleneckBlockAsDocumented ==
    net.pc = "csp" =>
        /\ Cardinality(Bottleneck3x3) = NetArg.num_bottlenecks
        /\ \A k \in Bottleneck3x3 :
              net.graph[k].by = ConvBlockAsDocumented(NetArg.block_type)

\* C14: a backbone built with block_type "basic_block" holds no depthwise
\* convolution, and in one built with "depthwise_block" the 3x3 convolutions of
\* the dark levels, those of the bottlenecks included, are depthwise.
C14_BlockTypeIsTheSwitch ==
    net.pc = "done" =>
        /\ NetArg.block_type = "basic_block"
              => \A l \in GraphLayers : l.layer # "DepthwiseConv2D"
        /\ NetArg.block_type = "depthwise_block"
              => \A k \in Dark3x3 \cup Bottleneck3x3 :
                    net.graph[k].by = "apply_darknet_conv_block_depthwise"

FocusIn == net.x[1]
FocusOut == net.out[1]
Even(n) == n % 2 = 0

\* the output has half the width and height and four times the channels, the
\* four channel groups are the sub-images at offsets (0,0), (1,0), (0,1), (1,1)
\* with stride 2, and every input pixel is at exactly one place of the output
Focused(x, out) ==
    LET B == x.shape[1]
        W == x.shape[2]
        H == x.shape[3]
        C == x.shape[4]
        offset == <<(<<0, 0>>), (<<1, 0>>), (<<0, 1>>), (<<1, 1>>)>>
    IN  /\ out.exc = None
        /\ LET y == out.value[1] IN
           /\ y.shape = <<B, W \div 2, H \div 2, 4 * C>>
           /\ \A ix \in Index(y.shape) :
                 LET g == ix[4] \div C IN
                 y.at[ix] = <<ix[1], 2 * ix[2] + offset[g + 1][1],
                              2 * ix[3] + offset[g + 1][2], ix[4] % C>>
           /\ \A px \in Index(x.shape) :
                 Cardinality({ix \in Index(y.shape) : y.at[ix] = x.at[px]}) = 1

\* C15 as stated: for every width and height
C15_FocusAnySize == net.pc = "focus" => Focused(FocusIn, FocusOut)

\* C15: for every even width and height apply_focus turns (batch, width,
\* height, channels) into (batch, width/2, height/2, 4*channels), the channel
\* groups being the sub-images at (even, even), (odd, even), (even, odd) and
\* (odd, odd) offsets, every input pixel once; with an odd width or height the
\* sub-images differ in shape and there is no output.
C15_FocusEvenSize ==
    net.pc = "focus" =>
        IF Even(FocusIn.shape[2]) /\ Even(FocusIn.shape[3])
        THEN Focused(FocusIn, FocusOut)
        ELSE FocusOut.exc # None /\ FocusOut.value = None

\* an image of 4 by 2 pixels with 2 channels came out 2 by 1 with 8 channels
C15_Witness ==
    /\ net.pc = "focus"
    /\ FocusIn.shape = <<2, 4, 2, 2>>
    /\ FocusOut.exc = None
    /\ FocusOut.value[1].shape = <<2, 2, 1, 8>>
    /\ FocusOut.value[1].at[<<1, 1, 0, 7>>] = <<1, 3, 1, 1>>

====
